---- MODULE Spec2Model ----
(***************************************************************************)
(* Model of scrape_google_matcha.py: the menu crawler                      *)
(* (check_menu_for_matcha), the evidence aggregator (check_for_matcha) and *)
(* search_coffee_shops: its per-place loop (Spec, SpecRepeat, SpecFan,     *)
(* SpecLive) and its loop over the pages of places_nearby (SpecSearch).    *)
(*                                                                         *)
(* A URL string is the record of the components urlparse() gives:          *)
(*   scheme, netloc, path, and emptyq (the string ends in a bare "?", an   *)
(*   empty query that geturl() drops).  Paths are numbered; path 0 is the  *)
(*   empty path.  The empty string "" is the URL with every component      *)
(*   empty.  An optional value (a key that a dict may lack, a local that   *)
(*   may be unset) is a set with at most one element.                      *)
(***************************************************************************)
EXTENDS Integers, Sequences, FiniteSets, Bags, TLC

\* ---------------------------------------------------------------- bounds
\* Paths 1..NumPaths exist on every host of the modelled web.
NumPaths == 8
\* The pages of a "mesh" site link to the paths 1..MeshSize.
MeshSize == 5
\* Places handled by one run of search_coffee_shops under SpecRepeat.
MaxPlaces == 2
\* Most general links on the front page of a "fan" site whose leaves carry
\* no menu (the crawl then runs until its budget is used up) ...
FanCrawl == 10
\* ... and of one whose leaves all carry the menu (the crawl then ends with
\* its second page).
FanMax == 15

\* ------------------------------------------------------- program constants
MAX_PAGES_TO_CRAWL == 7

\* ------------------------------------------------------------------- URLs
Paths == 1..NumPaths

Url(s, n, p, q) == [scheme |-> s, netloc |-> n, path |-> p, emptyq |-> q]

\* "" : what place_details.get('website') gives for an empty website field.
EmptyString == Url("", "", 0, FALSE)

\* "a.test/1": no scheme, so urlparse() puts everything into the path.
NoSchemeSeed == Url("", "", 1, FALSE)

\* "http://[bad": urlparse() raises ValueError (Invalid IPv6 URL).
BadSeed == Url("http", "[bad", 0, FALSE)

\* urlparse(u) returns
UrlParses(u) == u.netloc # "[bad"

\* The host of a netloc: the netloc without its port.
Host(netloc) == IF netloc = "a.test:80" THEN "a.test" ELSE netloc

\* urlparse(u).geturl(): the string rebuilt from its components; an empty
\* query is dropped, everything else is kept as written.
GetUrl(u) == [u EXCEPT !.emptyq = FALSE]

\* Mutant: only a missing website is falsy ("is not None").
Truthy_NotNone(w) == w # {}

\* bool(website_url): None and "" are falsy.
Truthy(w) == w # {} /\ w # {EmptyString}

\* ------------------------------------------------------------------ texts
\* str.lower() on the texts of the model.
Lower(t) ==
    CASE t = "Iced Matcha Latte" -> "iced matcha latte"
      [] t = "MATCHA House"      -> "matcha house"
      [] t = "Matcha cake"       -> "matcha cake"
      [] t = "Joe's Coffee"      -> "joe's coffee"
      [] t = "Great Matcha!"     -> "great matcha!"
      [] t = "Our Menu"          -> "our menu"
      [] t = "About"             -> "about"
      [] OTHER                   -> t

\* 'matcha' in t  (case-sensitive substring test)
ContainsMatcha(t) ==
    t \in {"iced matcha latte", "matcha house", "matcha cake", "great matcha!"}

\* any(re.search(pattern, t) for pattern in matcha_patterns)
MatchesPattern(t) == t \in {"iced matcha latte"}

\* any(keyword in t for keyword in ['menu','drink','product','item','cafe','beverage'])
HasKeyword(t) == t \in {"our menu"}

\* Paths whose text contains one of the keywords ("/menu", "/drinks", ...).
KeywordPaths == {2, 5}

\* ------------------------------------------------------------------- site
\* An anchor of a page: its href and its visible text.  Forms of href:
\*   "rel"    /<path>                    (no scheme, no netloc)
\*   "empty"  ""                         (href="")
\*   "abs"    <scheme>://<netloc>/<path> (http or https)
\*   "netrel" //<netloc>/<path>          (no scheme, a netloc)
\*   "mailto" mailto:...                 (another scheme)
\*   "bad"    http://[bad                (urlparse raises ValueError)
Anchor(f, s, n, p, q, t) ==
    [form |-> f, scheme |-> s, netloc |-> n, path |-> p, emptyq |-> q, text |-> t]

Rel(p, t) == Anchor("rel", "", "", p, FALSE, t)

Abs(s, n, p, q, t) == Anchor("abs", s, n, p, q, t)

Topologies == {"star", "mesh", "chain"}

RECURSIVE RelLinks(_, _, _)
\* rel links to the paths lo..hi, in that order
RelLinks(lo, hi, t) ==
    IF lo > hi THEN <<>> ELSE <<Rel(lo, t)>> \o RelLinks(lo + 1, hi, t)

\* The anchors of the page at path p, in document order.
Links(topo, p) ==
    CASE topo = "star" ->
           IF p = 1
           THEN << Anchor("mailto", "mailto", "", 0, FALSE, "About"),
                   Abs("https", "b.test", 2, FALSE, "Our Menu"),
                   Abs("http", "a.test:80", 2, FALSE, "About"),
                   Anchor("netrel", "", "a.test", 3, FALSE, "About") >>
                \o RelLinks(2, NumPaths, "About")
           ELSE <<>>
      [] topo = "mesh" ->
           << Anchor("empty", "", "", 0, FALSE, "About"),
              Abs("http", "a.test", 1, TRUE, "About"),
              Abs("http", "b.test", 1, FALSE, "About") >>
           \o RelLinks(1, MeshSize, "About")
      [] topo = "chain" ->
           << Rel(p, "About"),
              Rel(IF p < NumPaths THEN p + 1 ELSE 1, "Our Menu"),
              Anchor("bad", "", "", 0, FALSE, "About"),
              Rel(IF p + 1 < NumPaths THEN p + 2 ELSE 1, "About") >>
      [] topo = "ring" ->
           << Rel(p, "About"),
              Rel(IF p < NumPaths THEN p + 1 ELSE 1, "Our Menu") >>

\* A site: its link topology, the path whose page carries a menu with
\* matcha on it (0: none), and the path whose fetch or parse goes wrong
\* (0: none) with the way it goes wrong:
\*   "non200"   the response has another status than 200
\*   "reqexc"   requests.get raises a RequestException (timeout, connection)
\*   "parseexc" BeautifulSoup / get_text raises
Sites ==
    { s \in [topo : Topologies, matchAt : {0, 1, 3, NumPaths},
             badAt : {0, 3}, badKind : {"non200", "reqexc", "parseexc"}] :
        s.badAt = 0 => s.badKind = "non200" }

\* A "fan" site: its front page (path 1) lists s.fan general links to the
\* leaves 11, 12, ..., then a link that is priority by its text (to path 3)
\* and one that is priority by its path (to path 2) as s.prio says, then,
\* behind these, one more general link.  The pages 2 and 3 list a general
\* link (to path 9) and a priority link (to path 5); the other pages have
\* no links.  With s.menus every page but 1, 2 and 3 carries the menu.
FanSites ==
    { s \in [topo : {"fan"}, matchAt : {0, 2, 3}, badAt : {0, 11},
             badKind : {"non200"}, fan : 0..FanMax,
             prio : SUBSET {"path", "text"}, menus : BOOLEAN] :
        /\ s.menus = (s.fan > FanCrawl)
        /\ s.prio # {} => (s.fan = 0 \/ s.menus)
        /\ s.matchAt # 0 => (s.fan = 0 /\ s.prio # {}) }

\* A "ring" site: every page links to itself and, with a priority link, to
\* the next page; all hrefs parse.
RingSites ==
    [topo : {"ring"}, matchAt : {0, NumPaths}, badAt : {0, 3},
     badKind : {"non200"}]

FanLinks(s, p) ==
    IF p = 1
    THEN RelLinks(11, 10 + s.fan, "About")
         \o (IF "text" \in s.prio THEN << Rel(3, "Our Menu") >> ELSE <<>>)
         \o (IF "path" \in s.prio THEN << Rel(2, "About") >> ELSE <<>>)
         \o (IF s.prio # {} /\ s.fan > 0
             THEN << Rel(11 + s.fan, "About") >> ELSE <<>>)
    ELSE IF p \in {2, 3} THEN << Rel(9, "About"), Rel(5, "About") >>
    ELSE <<>>

\* The paths at which the site serves a page.
SitePaths(s) ==
    IF s.topo = "fan" THEN {1, 2, 3, 5, 9} \cup 11..(11 + s.fan) ELSE Paths

\* The anchors of the page of site s at path p, in document order.
SiteLinks(s, p) ==
    IF s.topo = "fan" THEN FanLinks(s, p) ELSE Links(s.topo, p)

\* The visible text of the page at path p.
PageText(s, p) ==
    IF p = s.matchAt \/ (s.topo = "fan" /\ s.menus /\ p \notin {1, 2, 3})
    THEN "Iced Matcha Latte"
    ELSE IF p \in KeywordPaths THEN "Matcha cake" ELSE "About"

\* requests.get(u, ...) followed by BeautifulSoup(response.text): what the
\* site s answers for URL u.  status "exc" is a RequestException; parsed is
\* whether BeautifulSoup and get_text succeed.  A URL without an http(s)
\* scheme never reaches a server (MissingSchema / InvalidSchema).  The
\* resource served depends on the host and the path only.
Response(s, u) ==
    IF u.scheme \notin {"http", "https"} \/ u.path \notin SitePaths(s)
    THEN [status |-> "exc", parsed |-> FALSE, text |-> "", links |-> <<>>]
    ELSE [status |-> IF u.path = s.badAt /\ s.badKind = "reqexc" THEN "exc"
                     ELSE IF u.path = s.badAt /\ s.badKind = "non200" THEN "404"
                     ELSE "200",
          parsed |-> ~(u.path = s.badAt /\ s.badKind = "parseexc"),
          text   |-> PageText(s, u.path),
          links  |-> SiteLinks(s, u.path)]

\* ------------------------------------------------- check_menu_for_matcha
\* Mutant: the loop runs while the frontier holds anything.
LoopCondition_NoBudget(frontier, count) == frontier # {}

\* Mutant: the loop is left one page late.
LoopCondition_OffByOne(frontier, count) ==
    frontier # {} /\ count <= MAX_PAGES_TO_CRAWL

\* while pages_to_visit and pages_crawled_count < MAX_PAGES_TO_CRAWL
LoopCondition(frontier, count) ==
    frontier # {} /\ count < MAX_PAGES_TO_CRAWL

\* Mutant: the popped URL is not recorded as visited.
MarkVisited_Forgotten(visited, u) == visited

\* visited_pages.add(current_url)
MarkVisited(visited, u) == visited \cup {u}

\* The href is neither relative nor absolute http(s): continue (line 155).
Skipped(a) ==
    ~(a.scheme = "" /\ a.netloc = "") /\ a.scheme \notin {"http", "https"}

\* Mutant: a relative href is not resolved against the current page.
Joined_NoResolve(cur, a) == Url(a.scheme, a.netloc, a.path, a.emptyq)

\* joined_url: urljoin(current_url, href) for a relative href, the href
\* itself for an absolute one.  urljoin(base, "") is base.
Joined(cur, a) ==
    IF a.scheme = "" /\ a.netloc = ""
    THEN IF a.form = "empty" THEN cur
         ELSE Url(cur.scheme, cur.netloc, a.path, a.emptyq)
    ELSE Url(a.scheme, a.netloc, a.path, a.emptyq)

\* Mutant: links to any host are queued.
ShouldEnqueue_AnyHost(j, domain, visited, frontier) ==
    /\ GetUrl(j) \notin visited
    /\ GetUrl(j) \notin frontier

\* Mutant: a link is queued although it was visited.
ShouldEnqueue_Revisit(j, domain, visited, frontier) ==
    /\ j.netloc = domain
    /\ GetUrl(j) \notin frontier

\* Internal link, not yet visited or queued (line 158).
ShouldEnqueue(j, domain, visited, frontier) ==
    /\ j.netloc = domain
    /\ GetUrl(j) \notin visited
    /\ GetUrl(j) \notin frontier

\* A keyword in the link's path or in its text (line 161).
IsPriority(j, a) ==
    j.path \in KeywordPaths \/ HasKeyword(Lower(a.text))

\* Mutant: general links are added whatever the size of the frontier.
GeneralRoom_Unlimited(frontier) == TRUE

\* General links are added sparingly (line 164).
GeneralRoom(frontier) == Cardinality(frontier) < MAX_PAGES_TO_CRAWL * 2

\* What the loop body does with one anchor (lines 147-165): "reject" (the
\* continue at line 155, or another netloc than the seed's), "priority" or
\* "general".
Classify(cur, a, domain) ==
    IF Skipped(a) THEN "reject"
    ELSE IF Joined(cur, a).netloc # domain THEN "reject"
    ELSE IF IsPriority(Joined(cur, a), a) THEN "priority"
    ELSE "general"

RECURSIVE ExtractLinks_CapAll(_, _, _, _, _)
\* Mutant: priority links too are added only while there is room.
ExtractLinks_CapAll(links, cur, frontier, visited, domain) ==
    IF links = <<>> THEN frontier
    ELSE LET a == Head(links)
             rest == Tail(links)
         IN IF a.form = "bad" THEN frontier
            ELSE IF Skipped(a)
            THEN ExtractLinks_CapAll(rest, cur, frontier, visited, domain)
            ELSE LET j == Joined(cur, a)
                 IN IF ShouldEnqueue(j, domain, visited, frontier)
                       /\ GeneralRoom(frontier)
                    THEN ExtractLinks_CapAll(rest, cur,
                                             frontier \cup {GetUrl(j)},
                                             visited, domain)
                    ELSE ExtractLinks_CapAll(rest, cur, frontier, visited,
                                             domain)

RECURSIVE ExtractLinks(_, _, _, _, _)
\* The for loop over the anchors of a page (lines 145-166): the frontier
\* it leaves.  An anchor whose href does not parse raises inside the loop;
\* the handler at line 171 ends the processing of the page and keeps what
\* was queued before.
ExtractLinks(links, cur, frontier, visited, domain) ==
    IF links = <<>> THEN frontier
    ELSE LET a == Head(links)
             rest == Tail(links)
         IN IF a.form = "bad" THEN frontier
            ELSE IF Skipped(a)
            THEN ExtractLinks(rest, cur, frontier, visited, domain)
            ELSE LET j == Joined(cur, a)
                 IN IF ShouldEnqueue(j, domain, visited, frontier)
                       /\ (IsPriority(j, a) \/ GeneralRoom(frontier))
                    THEN ExtractLinks(rest, cur, frontier \cup {GetUrl(j)},
                                      visited, domain)
                    ELSE ExtractLinks(rest, cur, frontier, visited, domain)

\* The page was fetched with status 200, its text was extracted and one of
\* the patterns matches the lowercased text (lines 131-141).
PageMatches(r) ==
    r.status = "200" /\ r.parsed /\ MatchesPattern(Lower(r.text))

\* Mutant: the links of a page are queued before its text is matched.
FrontierAfterPage_LinksFirst(r, cur, frontier, visited, count, domain) ==
    IF r.status # "200" \/ ~r.parsed THEN frontier
    ELSE IF count < MAX_PAGES_TO_CRAWL
         THEN ExtractLinks(r.links, cur, frontier, visited, domain)
         ELSE frontier

\* Mutant: the status of the response is not looked at.
FrontierAfterPage_IgnoreStatus(r, cur, frontier, visited, count, domain) ==
    IF r.status = "exc" \/ ~r.parsed \/ PageMatches(r) THEN frontier
    ELSE IF count < MAX_PAGES_TO_CRAWL
         THEN ExtractLinks(r.links, cur, frontier, visited, domain)
         ELSE frontier

\* The frontier after the page at cur was handled (lines 128-173); frontier
\* is pages_to_visit after the pop, count the counter after its increment.
FrontierAfterPage(r, cur, frontier, visited, count, domain) ==
    IF r.status # "200" \/ ~r.parsed \/ PageMatches(r) THEN frontier
    ELSE IF count < MAX_PAGES_TO_CRAWL
         THEN ExtractLinks(r.links, cur, frontier, visited, domain)
         ELSE frontier

\* Mutant: the crawl reports a find when it runs out of pages.
ExhaustedResult_True == TRUE

\* return False after the loop (line 176)
ExhaustedResult == FALSE

\* -------------------------------------------------------- check_for_matcha
\* The website field of a place: missing, "", a string without scheme, a
\* string urlparse rejects, or an http(s) URL.
Websites ==
    { {}, {EmptyString}, {NoSchemeSeed}, {BadSeed},
      {Url("http", "a.test", 1, FALSE)},
      {Url("https", "a.test", 1, TRUE)},
      {Url("http", "a.test:80", 3, FALSE)},
      {Url("https", "b.test", 2, FALSE)} }

\* The other fields of a details bundle that check_for_matcha reads; {} is
\* a key the bundle does not have.  A
\* review is its optional text; the editorial summary is its optional
\* overview; type is a list of tags or, when islist is FALSE, one string.
Details ==
    [ name      : { {}, {"Joe's Coffee"}, {"MATCHA House"} },
      reviews   : { {}, {<< {"About"} >>}, {<< {}, {"Great Matcha!"}, {"About"} >>} },
      editorial : { {}, {{}}, {{"Matcha cake"}} },
      type      : { {}, {[islist |-> TRUE, tags |-> <<"bakery", "cafe">>]},
                    {[islist |-> FALSE, tags |-> <<"tea_room">>]} } ]

\* dict.get(key, default) on an optional value
Get(opt, default) == IF opt = {} THEN default ELSE CHOOSE x \in opt : TRUE

\* Some review text contains 'matcha' (lines 211-218).
ReviewMention(d) ==
    /\ d.reviews # {}
    /\ LET rs == Get(d.reviews, <<>>)
       IN \E i \in 1..Len(rs) : ContainsMatcha(Lower(Get(rs[i], "")))

\* 'matcha' in place_details.get('name', '').lower() (lines 222-223)
NameMention(d) == ContainsMatcha(Lower(Get(d.name, "")))

\* The overview of the editorial summary contains 'matcha' (lines 227-229).
SummaryMention(d) ==
    /\ d.editorial # {}
    /\ Get(d.editorial, {}) # {}
    /\ ContainsMatcha(Lower(Get(Get(d.editorial, {}), "")))

\* place_types after lines 233-235
PlaceTypes(d) ==
    IF d.type = {} THEN <<>>
    ELSE LET t == Get(d.type, <<>>)
         IN IF t.islist THEN t.tags
            ELSE IF t.tags # <<"">> THEN t.tags ELSE <<>>

\* 'cafe' in place_types or 'coffee_shop' in ... or 'tea_room' in ... (line 238)
RelevantType(d) ==
    \E i \in 1..Len(PlaceTypes(d)) :
        PlaceTypes(d)[i] \in {"cafe", "coffee_shop", "tea_room"}

\* A subscript d[key] on a key the dict does not have raises KeyError.
KeyError(opt) == opt = {}

\* Mutant: the reviews are read without asking whether there are any.
ReviewsPresent_Always(d) == TRUE

\* 'reviews' in place_details (line 211)
ReviewsPresent(d) == d.reviews # {}

\* 'editorial_summary' in place_details and
\* place_details['editorial_summary'].get('overview') (line 227)
SummaryPresent(d) == d.editorial # {} /\ Get(d.editorial, {}) # {}

\* check_for_matcha raises: one of the subscripts it evaluates (lines 212,
\* 213, 227, 228) is on a missing key.
Raises(d) ==
    \/ ReviewsPresent(d) /\ KeyError(d.reviews)
    \/ SummaryPresent(d)
         /\ (KeyError(d.editorial) \/ KeyError(Get(d.editorial, {})))

\* Mutant: a mention in the name also sets the verdict.
HasMatcha_OrName(found, d) == found \/ NameMention(d)

\* has_matcha = matcha_found_on_menu (line 208)
HasMatcha(found, d) == found

\* Mutant: no placeholder entry is appended.
Evidence_NoPlaceholder(found, d) ==
    (IF found THEN <<"Found on menu (website scan)">> ELSE <<>>)
    \o (IF ReviewMention(d) THEN <<"Mentioned in reviews">> ELSE <<>>)
    \o (IF NameMention(d) THEN <<"Mentioned in name">> ELSE <<>>)
    \o (IF SummaryMention(d)
        THEN <<"Mentioned in editorial summary">> ELSE <<>>)
    \o (IF RelevantType(d)
        THEN <<"Relevant business type (e.g., cafe, tea room)">>
        ELSE <<>>)

\* Mutant: the placeholder is appended whenever the verdict is False.
Evidence_PlaceholderOnFalse(found, d) ==
    LET collected ==
            (IF found THEN <<"Found on menu (website scan)">> ELSE <<>>)
            \o (IF ReviewMention(d) THEN <<"Mentioned in reviews">> ELSE <<>>)
            \o (IF NameMention(d) THEN <<"Mentioned in name">> ELSE <<>>)
            \o (IF SummaryMention(d)
                THEN <<"Mentioned in editorial summary">> ELSE <<>>)
            \o (IF RelevantType(d)
                THEN <<"Relevant business type (e.g., cafe, tea room)">>
                ELSE <<>>)
    IN IF ~HasMatcha(found, d)
       THEN collected \o <<"No specific matcha indicators found.">>
       ELSE collected

\* matcha_evidence as check_for_matcha returns it (lines 202-242)
Evidence(found, d) ==
    LET collected ==
            (IF found THEN <<"Found on menu (website scan)">> ELSE <<>>)
            \o (IF ReviewMention(d) THEN <<"Mentioned in reviews">> ELSE <<>>)
            \o (IF NameMention(d) THEN <<"Mentioned in name">> ELSE <<>>)
            \o (IF SummaryMention(d)
                THEN <<"Mentioned in editorial summary">> ELSE <<>>)
            \o (IF RelevantType(d)
                THEN <<"Relevant business type (e.g., cafe, tea room)">>
                ELSE <<>>)
    IN IF collected = <<>> /\ ~HasMatcha(found, d)
       THEN <<"No specific matcha indicators found.">>
       ELSE collected

\* ------------------------------------------------------------------ state
VARIABLES
    site,                 \* the web the crawler runs against (fixed)
    api_error,            \* optional: the ApiError places_nearby raised
    pc,                   \* "search" | "idle" | "crawling" | "popped" |
                          \* "returned" | "evidence" | "done"
    website,              \* place_details.get('website') of the current place
    original_domain,      \* check_menu_for_matcha locals ...
    pages_to_visit,
    visited_pages,
    pages_crawled_count,
    current_url,          \* ... optional: unset before the first pop
    get_log,              \* bag of the URLs the running crawl has called
                          \* requests.get with
    matcha_found_on_menu, \* check_for_matcha local
    coffee_shops          \* search_coffee_shops: the shop_info list

vars == << site, api_error, pc, website, original_domain, pages_to_visit, visited_pages,
           pages_crawled_count, current_url, get_log, matcha_found_on_menu,
           coffee_shops >>

Init ==
    /\ site \in Sites
    /\ api_error = {}
    /\ pc = "idle"
    /\ website = {}
    /\ original_domain = ""
    /\ pages_to_visit = {}
    /\ visited_pages = {}
    /\ pages_crawled_count = 0
    /\ current_url = {}
    /\ get_log = EmptyBag
    /\ matcha_found_on_menu = FALSE
    /\ coffee_shops = <<>>

\* search_coffee_shops takes the next place and calls check_for_matcha
\* (lines 301-321, 183-201); for a truthy website check_menu_for_matcha is
\* entered and sets up its crawl (lines 92-117).  When urlparse rejects the
\* website the handler at line 178 returns False.
StartPlace(w, max) ==
    /\ pc = "idle"
    /\ Len(coffee_shops) < max
    /\ website' = w
    /\ matcha_found_on_menu' = FALSE
    /\ get_log' = EmptyBag
    /\ visited_pages' = {}
    /\ pages_crawled_count' = 0
    /\ current_url' = {}
    /\ IF Truthy(w) /\ Truthy(w)
       THEN IF UrlParses(Get(w, EmptyString))
            THEN /\ original_domain' = Get(w, EmptyString).netloc
                 /\ pages_to_visit' = w
                 /\ pc' = "crawling"
            ELSE /\ original_domain' = ""
                 /\ pages_to_visit' = {}
                 /\ pc' = "returned"
       ELSE /\ original_domain' = ""
            /\ pages_to_visit' = {}
            /\ pc' = "evidence"
    /\ UNCHANGED << site, api_error, coffee_shops >>

\* Mutant: the URL is read from the frontier and left in it.
CrawlPop_Peek ==
    /\ pc = "crawling"
    /\ LoopCondition(pages_to_visit, pages_crawled_count)
    /\ \E u \in pages_to_visit : current_url' = {u}
    /\ pc' = "popped"
    /\ UNCHANGED << site, api_error, website, original_domain, pages_to_visit,
                    visited_pages, pages_crawled_count, get_log,
                    matcha_found_on_menu, coffee_shops >>

\* The loop condition holds and pages_to_visit.pop() removes an arbitrary
\* URL (lines 119-120).
CrawlPop ==
    /\ pc = "crawling"
    /\ LoopCondition(pages_to_visit, pages_crawled_count)
    /\ \E u \in pages_to_visit :
         /\ current_url' = {u}
         /\ pages_to_visit' = pages_to_visit \ {u}
    /\ pc' = "popped"
    /\ UNCHANGED << site, api_error, website, original_domain, visited_pages,
                    pages_crawled_count, get_log, matcha_found_on_menu,
                    coffee_shops >>

\* Mutant: a URL whose fetch failed is put back into the frontier to be
\* tried again; the attempt is not counted.
CrawlVisit_RetryFailed ==
    /\ pc = "popped"
    /\ LET u == Get(current_url, EmptyString)
           r == Response(site, u)
       IN IF u \in visited_pages
          THEN /\ pc' = "crawling"
               /\ UNCHANGED << pages_to_visit, visited_pages,
                               pages_crawled_count, get_log,
                               matcha_found_on_menu >>
          ELSE IF r.status # "200"
          THEN /\ pc' = "crawling"
               /\ pages_to_visit' = pages_to_visit \cup {u}
               /\ UNCHANGED << visited_pages, pages_crawled_count, get_log,
                               matcha_found_on_menu >>
          ELSE LET count == pages_crawled_count + 1
                   visited == MarkVisited(visited_pages, u)
               IN /\ visited_pages' = visited
                  /\ pages_crawled_count' = count
                  /\ get_log' = get_log (+) SetToBag({u})
                  /\ pages_to_visit' =
                       FrontierAfterPage(r, u, pages_to_visit, visited,
                                         count, original_domain)
                  /\ IF PageMatches(r)
                     THEN matcha_found_on_menu' = TRUE /\ pc' = "returned"
                     ELSE matcha_found_on_menu' = matcha_found_on_menu
                          /\ pc' = "crawling"
    /\ UNCHANGED << site, api_error, website, original_domain, current_url,
                    coffee_shops >>

\* The rest of the iteration (lines 121-173): skip a visited URL, else mark
\* it, count it, fetch it and handle the page.
CrawlVisit ==
    /\ pc = "popped"
    /\ LET u == Get(current_url, EmptyString)
       IN IF u \in visited_pages
          THEN /\ pc' = "crawling"
               /\ UNCHANGED << pages_to_visit, visited_pages,
                               pages_crawled_count, get_log,
                               matcha_found_on_menu >>
          ELSE LET r == Response(site, u)
                   count == pages_crawled_count + 1
                   visited == MarkVisited(visited_pages, u)
               IN /\ visited_pages' = visited
                  /\ pages_crawled_count' = count
                  /\ get_log' = get_log (+) SetToBag({u})
                  /\ pages_to_visit' =
                       FrontierAfterPage(r, u, pages_to_visit, visited,
                                         count, original_domain)
                  /\ IF PageMatches(r)
                     THEN matcha_found_on_menu' = TRUE /\ pc' = "returned"
                     ELSE matcha_found_on_menu' = matcha_found_on_menu
                          /\ pc' = "crawling"
    /\ UNCHANGED << site, api_error, website, original_domain, current_url,
                    coffee_shops >>

\* The loop condition fails: return False (lines 175-176).
CrawlFinish ==
    /\ pc = "crawling"
    /\ ~LoopCondition(pages_to_visit, pages_crawled_count)
    /\ matcha_found_on_menu' = ExhaustedResult
    /\ pc' = "returned"
    /\ UNCHANGED << site, api_error, website, original_domain, pages_to_visit,
                    visited_pages, pages_crawled_count, current_url, get_log,
                    coffee_shops >>

\* check_menu_for_matcha has returned to line 201: its locals are gone.
CrawlReturn ==
    /\ pc = "returned"
    /\ pc' = "evidence"
    /\ original_domain' = ""
    /\ pages_to_visit' = {}
    /\ visited_pages' = {}
    /\ pages_crawled_count' = 0
    /\ current_url' = {}
    /\ get_log' = EmptyBag
    /\ UNCHANGED << site, api_error, website, matcha_found_on_menu, coffee_shops >>

\* The rest of check_for_matcha (lines 202-245) on the details d of the
\* place, and the shop_info search_coffee_shops appends (lines 321-332).
\* An exception out of check_for_matcha is logged at line 337 and the place
\* is left out.
Aggregate(d) ==
    /\ pc = "evidence"
    /\ coffee_shops' =
         IF Raises(d) THEN coffee_shops
         ELSE Append(coffee_shops,
                     [website         |-> website,
                      has_matcha      |-> HasMatcha(matcha_found_on_menu, d),
                      matcha_evidence |-> Evidence(matcha_found_on_menu, d),
                      details         |-> d])
    /\ pc' = "idle"
    /\ UNCHANGED << site, api_error, website, original_domain, pages_to_visit,
                    visited_pages, pages_crawled_count, current_url, get_log,
                    matcha_found_on_menu >>

\* One place per run, every details bundle.
Next ==
    \/ \E w \in Websites : StartPlace(w, 1)
    \/ CrawlPop
    \/ CrawlVisit
    \/ CrawlFinish
    \/ CrawlReturn
    \/ \E d \in Details : Aggregate(d)

Spec == Init /\ [][Next]_vars

\* The crawl is sequential code: whenever one of its steps can be taken it
\* is taken (requests.get returns or raises within its timeout of 10 s).
\* Several places per run (the for loop of lines 301-333), among them
\* places that share a website; one details bundle with and one without
\* supporting signals.
RepeatWebsites == { {}, {Url("http", "a.test", 1, FALSE)} }

RepeatDetails ==
    { d \in Details :
        \/ d.name = {} /\ d.reviews = {} /\ d.editorial = {} /\ d.type = {}
        \/ d.name = {"MATCHA House"} /\ d.reviews = {} /\ d.editorial = {{}}
           /\ d.type = {[islist |-> FALSE, tags |-> <<"tea_room">>]} }

NextRepeat ==
    \/ \E w \in RepeatWebsites : StartPlace(w, MaxPlaces)
    \/ CrawlPop
    \/ CrawlVisit
    \/ CrawlFinish
    \/ CrawlReturn
    \/ \E d \in RepeatDetails : Aggregate(d)

SpecRepeat == Init /\ [][NextRepeat]_vars

\* One place per run, with or without a website.
NextLive ==
    \/ \E w \in RepeatWebsites : StartPlace(w, 1)
    \/ CrawlPop
    \/ CrawlVisit
    \/ CrawlFinish
    \/ CrawlReturn
    \/ \E d \in RepeatDetails : Aggregate(d)

\* The crawl is sequential code: whenever one of its steps can be taken it
\* is taken (requests.get returns or raises within its timeout of 10 s).
SpecLive ==
    /\ Init /\ [][NextLive]_vars
    /\ WF_vars(CrawlPop) /\ WF_vars(CrawlVisit) /\ WF_vars(CrawlFinish)

\* One place, with a fan site or a ring site behind its website.
InitFan ==
    /\ site \in FanSites \cup RingSites
    /\ api_error = {}
    /\ pc = "idle"
    /\ website = {}
    /\ original_domain = ""
    /\ pages_to_visit = {}
    /\ visited_pages = {}
    /\ pages_crawled_count = 0
    /\ current_url = {}
    /\ get_log = EmptyBag
    /\ matcha_found_on_menu = FALSE
    /\ coffee_shops = <<>>

NextFan ==
    \/ StartPlace({Url("http", "a.test", 1, FALSE)}, 1)
    \/ CrawlPop
    \/ CrawlVisit
    \/ CrawlFinish
    \/ CrawlReturn
    \/ \E d \in RepeatDetails : Aggregate(d)

SpecFan == InitFan /\ [][NextFan]_vars

\* The status with which gmaps.places_nearby answers: "OK", or one that the
\* client raises as googlemaps.exceptions.ApiError.
ApiOutcomes == {"OK", "REQUEST_DENIED", "OVER_QUERY_LIMIT", "INVALID_REQUEST"}

\* search_coffee_shops before its first places_nearby call (lines 247-274).
InitSearch ==
    /\ site \in Sites
    /\ api_error = {}
    /\ pc = "search"
    /\ website = {}
    /\ original_domain = ""
    /\ pages_to_visit = {}
    /\ visited_pages = {}
    /\ pages_crawled_count = 0
    /\ current_url = {}
    /\ get_log = EmptyBag
    /\ matcha_found_on_menu = FALSE
    /\ coffee_shops = <<>>

\* gmaps.places_nearby (lines 278-294): a page of results, or an ApiError,
\* which is logged and ends the loop; line 351 then returns coffee_shops.
PlacesNearby(outcome) ==
    /\ pc = "search"
    /\ IF outcome = "OK"
       THEN api_error' = {} /\ pc' = "idle"
       ELSE api_error' = {outcome} /\ pc' = "done"
    /\ UNCHANGED << site, website, original_domain, pages_to_visit,
                    visited_pages, pages_crawled_count, current_url, get_log,
                    matcha_found_on_menu, coffee_shops >>

\* The results of the page are used up and the response carried a
\* next_page_token (lines 341-347).
NextPage ==
    /\ pc = "idle"
    /\ pc' = "search"
    /\ UNCHANGED << site, api_error, website, original_domain, pages_to_visit,
                    visited_pages, pages_crawled_count, current_url, get_log,
                    matcha_found_on_menu, coffee_shops >>

\* The results of the page are used up and there is no next_page_token:
\* break (line 344) and return coffee_shops (line 351).
SearchReturn ==
    /\ pc = "idle"
    /\ pc' = "done"
    /\ UNCHANGED << site, api_error, website, original_domain, pages_to_visit,
                    visited_pages, pages_crawled_count, current_url, get_log,
                    matcha_found_on_menu, coffee_shops >>

\* What search_coffee_shops hands to main (line 351).
SearchResult == coffee_shops

NextSearch ==
    \/ \E outcome \in ApiOutcomes : PlacesNearby(outcome)
    \/ \E w \in RepeatWebsites : StartPlace(w, MaxPlaces)
    \/ CrawlPop
    \/ CrawlVisit
    \/ CrawlFinish
    \/ CrawlReturn
    \/ \E d \in RepeatDetails : Aggregate(d)
    \/ NextPage
    \/ SearchReturn

SpecSearch == InitSearch /\ [][NextSearch]_vars

\* ----------------------------------------------------------------- claims
\* What the claims speak of, read off the state.
Seed == Get(website, EmptyString)

Fetches == BagCardinality(get_log)

InCrawl == pc \in {"crawling", "popped", "returned"}

\* The page at u answers 200 and its lowercased text matches a pattern.
Has200Match(u) ==
    LET r == Response(site, u)
    IN r.status = "200" /\ r.parsed /\ MatchesPattern(Lower(r.text))

FetchFailed(u) == Response(site, u).status # "200"

\* C1: the number of fetch attempts of a crawl never exceeds the page
\* budget, failed fetches included: every attempt is counted, and the
\* counter never passes MAX_PAGES_TO_CRAWL however large the frontier is.
C1_BudgetBound ==
    /\ Fetches <= MAX_PAGES_TO_CRAWL
    /\ pages_crawled_count <= MAX_PAGES_TO_CRAWL
    /\ Fetches = pages_crawled_count

\* The budget is used up, one of the fetches failed, and URLs are left in
\* the frontier.
C1_Witness ==
    /\ pc = "returned"
    /\ Fetches = MAX_PAGES_TO_CRAWL
    /\ pages_to_visit # {}
    /\ \E u \in BagToSet(get_log) : FetchFailed(u)

\* C2: a step that fetches a page answering 200 with matching text ends the
\* crawl with True: it removes nothing but that page from the frontier and
\* adds no link; and once the crawl has returned nothing more is fetched.
C2_EarlyTermination ==
    /\ [][ (pc = "popped"
            /\ get_log' # get_log
            /\ Has200Match(Get(current_url, EmptyString)))
           => /\ pc' = "returned"
              /\ matcha_found_on_menu' = TRUE
              /\ pages_to_visit' = pages_to_visit
              /\ BagCardinality(get_log') = Fetches + 1 ]_vars
    /\ [][ pc = "returned" => (pc' = "evidence" /\ get_log' = EmptyBag) ]_vars

\* The crawl returned True on its third page or later, a page with links,
\* with URLs left in the frontier.
C2_Witness ==
    /\ pc = "returned"
    /\ matcha_found_on_menu
    /\ pages_crawled_count >= 3
    /\ Response(site, Get(current_url, EmptyString)).links # <<>>
    /\ pages_to_visit # {}

\* C3: every URL in the frontier or the visited set, and every URL fetched,
\* has the host of the seed URL.
C3_DomainContainment ==
    InCrawl =>
        \A u \in pages_to_visit \cup visited_pages \cup BagToSet(get_log)
                 \cup current_url :
            Host(u.netloc) = Host(Seed.netloc)

\* A page with a link to another host was fetched with status 200 and its
\* links were queued.
C3_Witness ==
    /\ pc = "crawling"
    /\ pages_to_visit # {}
    /\ \E u \in visited_pages :
         /\ Response(site, u).status = "200"
         /\ \E i \in 1..Len(Response(site, u).links) :
              LET a == Response(site, u).links[i]
              IN a.form = "abs" /\ Host(a.netloc) # Host(Seed.netloc)

\* C4: no URL is the target of more than one GET request of a crawl.
C4_NoDuplicateFetch ==
    \A u \in BagToSet(get_log) : CopiesIn(u, get_log) = 1

\* Two pages that link to themselves and to each other were both fetched.
C4_Witness ==
    /\ pc = "crawling"
    /\ site.topo = "mesh"
    /\ \E u, v \in BagToSet(get_log) :
         /\ u # v
         /\ Response(site, u).status = "200" /\ Response(site, u).parsed
         /\ Response(site, v).status = "200" /\ Response(site, v).parsed

\* C5: has_matcha of a place is true exactly when the place has a website
\* and the crawl of it returned True; a name with "matcha" in it and a crawl
\* that returned False give has_matcha = False with "Mentioned in name" in
\* the evidence.
C5_HasMatchaAuthority ==
    (pc = "idle" /\ coffee_shops # <<>>) =>
        LET shop == coffee_shops[Len(coffee_shops)]
        IN /\ shop.has_matcha
                = (website \notin {{}, {EmptyString}} /\ matcha_found_on_menu)
           /\ (shop.details.name = {"MATCHA House"} /\ ~matcha_found_on_menu)
                => /\ shop.has_matcha = FALSE
                   /\ \E i \in 1..Len(shop.matcha_evidence) :
                        shop.matcha_evidence[i] = "Mentioned in name"

\* A place named with "matcha" whose website was crawled without a find.
C5_Witness ==
    /\ pc = "idle" /\ coffee_shops # <<>>
    /\ website \notin {{}, {EmptyString}, {NoSchemeSeed}}
    /\ ~matcha_found_on_menu
    /\ coffee_shops[Len(coffee_shops)].details.name = {"MATCHA House"}
    /\ coffee_shops[Len(coffee_shops)].has_matcha = FALSE

\* C6: the frontier and the visited set are disjoint in every state, also
\* right after the pop and right after the links of a page were queued.
C6_FrontierVisitedDisjoint ==
    pages_to_visit \cap visited_pages = {}

\* A page linking to itself and to visited pages was handled and the
\* frontier is not empty.
C6_Witness ==
    /\ pc = "crawling"
    /\ site.topo = "mesh"
    /\ pages_crawled_count >= 2
    /\ pages_to_visit # {}
    /\ \A u \in visited_pages :
         Response(site, u).status = "200" /\ Response(site, u).parsed

\* C7: a crawl that ends returns True exactly when one of the pages it
\* fetched answered 200 with matching text; when it returns False the
\* frontier is empty or the budget is used up.
C7_CrawlResult ==
    pc = "returned" =>
        /\ matcha_found_on_menu = (\E u \in visited_pages : Has200Match(u))
        /\ ~matcha_found_on_menu =>
             (pages_to_visit = {} \/ pages_crawled_count >= MAX_PAGES_TO_CRAWL)

\* The crawl returned False with the budget used up, links left over, and a
\* page among the fetched ones whose text would match but whose fetch
\* failed.
C7_Witness ==
    /\ pc = "returned"
    /\ ~matcha_found_on_menu
    /\ pages_crawled_count = MAX_PAGES_TO_CRAWL
    /\ pages_to_visit # {}
    /\ \E u \in visited_pages :
         MatchesPattern(Lower(Response(site, u).text)) /\ ~Has200Match(u)

\* C8: two crawls of the same seed URL against the same site give the same
\* verdict: places of one run that share a website share has_matcha.
C8_SameVerdict ==
    \A i, j \in 1..Len(coffee_shops) :
        coffee_shops[i].website = coffee_shops[j].website
            => coffee_shops[i].has_matcha = coffee_shops[j].has_matcha

\* C9: the evidence list of every evaluated place is non-empty.
C9_EvidenceNonEmpty ==
    \A i \in 1..Len(coffee_shops) : coffee_shops[i].matcha_evidence # <<>>

\* A place without any signal after a crawl that found nothing.
C9_Witness ==
    /\ coffee_shops # <<>>
    /\ website \notin {{}, {EmptyString}}
    /\ coffee_shops[1].matcha_evidence
         = <<"No specific matcha indicators found.">>

\* C10: a place whose website is missing or empty gets has_matcha = False,
\* no fetch is issued while it is evaluated, and its evidence holds nothing
\* but the name, review, summary and type entries or the placeholder.
C10_NoWebsiteNoFetch ==
    website \in {{}, {EmptyString}} =>
        /\ get_log = EmptyBag
        /\ pc \notin {"crawling", "popped", "returned"}
        /\ ~matcha_found_on_menu
        /\ (pc = "idle" /\ coffee_shops # <<>>) =>
             LET shop == coffee_shops[Len(coffee_shops)]
             IN /\ shop.has_matcha = FALSE
                /\ \A i \in 1..Len(shop.matcha_evidence) :
                     shop.matcha_evidence[i] \in
                       { "Mentioned in reviews", "Mentioned in name",
                         "Mentioned in editorial summary",
                         "Relevant business type (e.g., cafe, tea room)",
                         "No specific matcha indicators found." }

\* A place with an empty website was evaluated and has supporting evidence.
C10_Witness ==
    /\ pc = "idle" /\ coffee_shops # <<>>
    /\ website = {EmptyString}
    /\ Len(coffee_shops[1].matcha_evidence) >= 2

\* C11: a fetch that fails (another status than 200, an exception of
\* requests.get, a URL requests cannot fetch) does not end the crawl and is
\* not repeated: the step leaves the frontier as the pop left it, sets no
\* verdict and goes back to the loop head; the failed URL is visited, was
\* requested once, and is never queued again; when the fetch of the seed
\* fails the crawl returns False after that one request.
C11_FailedFetch ==
    /\ [][ (pc = "popped"
            /\ get_log' # get_log
            /\ FetchFailed(Get(current_url, EmptyString)))
           => /\ pc' = "crawling"
              /\ pages_to_visit' = pages_to_visit
              /\ matcha_found_on_menu' = matcha_found_on_menu
              /\ current_url \subseteq visited_pages'
              /\ BagCardinality(get_log') = Fetches + 1 ]_vars
    /\ [][ \A u \in visited_pages :
             FetchFailed(u) => /\ u \notin pages_to_visit'
                               /\ CopiesIn(u, get_log') <= 1 ]_vars
    /\ [][ (pc = "crawling" /\ pc' = "returned"
            /\ Seed \in visited_pages /\ FetchFailed(Seed))
           => /\ matcha_found_on_menu' = FALSE
              /\ BagCardinality(get_log') = 1
              /\ get_log' = get_log ]_vars

\* A page other than the seed failed to be fetched, pages that link to it
\* were fetched after it, and the crawl is still going on.
C11_Witness ==
    /\ pc = "crawling"
    /\ pages_to_visit # {}
    /\ \E u \in visited_pages :
         /\ u # Seed
         /\ FetchFailed(u)
         /\ u \notin current_url
         /\ \E v \in current_url :
              /\ Response(site, v).status = "200"
              /\ Response(site, v).parsed
              /\ \E i \in 1..Len(Response(site, v).links) :
                   LET a == Response(site, v).links[i]
                   IN a.form = "rel" /\ a.path = u.path

\* The handling of the page r fails with a parsing error: BeautifulSoup or
\* get_text raises, or the loop over the anchors reaches an href that
\* urlparse rejects (count is the counter after its increment).
ParseFails(r, count) ==
    /\ r.status = "200"
    /\ \/ ~r.parsed
       \/ /\ ~PageMatches(r)
          /\ count < MAX_PAGES_TO_CRAWL
          /\ \E i \in 1..Len(r.links) : r.links[i].form = "bad"

\* C12: a step that handles a fetched page and fails with a parsing error,
\* in the extraction of the text or at any one of the links, leaves the
\* frontier as it was before the page was handled, sets no verdict and
\* goes back to the loop head.
C12_ParseFailureNoEffect ==
    [][ (pc = "popped"
         /\ get_log' # get_log
         /\ ParseFails(Response(site, Get(current_url, EmptyString)),
                       pages_crawled_count'))
        => /\ pc' = "crawling"
           /\ pages_to_visit' = pages_to_visit
           /\ matcha_found_on_menu' = matcha_found_on_menu ]_vars

\* The evidence list e holds the entry x.
HasEntry(e, x) == \E i \in 1..Len(e) : e[i] = x

\* C13: check_for_matcha never ends in an error: whatever fields the
\* details bundle lacks and however the crawled site behaves, the step that
\* ends the evaluation of a place appends one shop with a Boolean verdict
\* and an evidence list; a missing website gives has_matcha = False and a
\* missing name, reviews, summary or type gives no entry of its kind.
C13_NeverRaises ==
    /\ [](pc \in {"idle", "crawling", "popped", "returned", "evidence"})
    /\ [][ pc = "evidence" =>
            /\ pc' = "idle"
            /\ Len(coffee_shops') = Len(coffee_shops) + 1
            /\ LET shop == coffee_shops'[Len(coffee_shops')]
                   d == shop.details
                   e == shop.matcha_evidence
               IN /\ shop.has_matcha \in BOOLEAN
                  /\ e # <<>>
                  /\ ~Truthy(shop.website) => shop.has_matcha = FALSE
                  /\ d.name = {} => ~HasEntry(e, "Mentioned in name")
                  /\ (d.reviews = {}
                      \/ \A i \in 1..Len(Get(d.reviews, <<>>)) :
                            Get(d.reviews, <<>>)[i] = {})
                        => ~HasEntry(e, "Mentioned in reviews")
                  /\ (d.editorial \in {{}, {{}}})
                        => ~HasEntry(e, "Mentioned in editorial summary")
                  /\ d.type = {}
                        => ~HasEntry(e, "Relevant business type (e.g., cafe, tea room)")
          ]_vars

\* A place whose bundle has none of the fields but a website that urlparse
\* rejects was evaluated: no matcha, and the placeholder as evidence.
C13_Witness ==
    /\ pc = "idle" /\ coffee_shops # <<>>
    /\ website = {BadSeed}
    /\ LET shop == coffee_shops[Len(coffee_shops)]
       IN /\ shop.details.name = {} /\ shop.details.reviews = {}
          /\ shop.details.editorial = {} /\ shop.details.type = {}
          /\ shop.has_matcha = FALSE
          /\ shop.matcha_evidence = <<"No specific matcha indicators found.">>

\* C14: when places_nearby fails, search_coffee_shops does not return what
\* a search without any place returns (the empty list).
C14_FailureSurfaced ==
    (pc = "done" /\ api_error # {}) => SearchResult # <<>>

Min(a, b) == IF a < b THEN a ELSE b

\* C15: on a site whose front page answers 200 and lists n distinct
\* same-domain general links to pages without links, a crawl in which no
\* fetched page matches returns False after exactly min(7, 1 + n) requests;
\* with n = 10 these are 7.
C15_FanFetchCount ==
    (/\ pc = "returned"
     /\ site.topo = "fan" /\ site.prio = {}
     /\ ~(\E u \in visited_pages : Has200Match(u)))
    => /\ matcha_found_on_menu = FALSE
       /\ Fetches = Min(MAX_PAGES_TO_CRAWL, 1 + site.fan)
       /\ site.fan = 10 => Fetches = 7

\* The crawl of a front page with 10 general links has returned False with
\* links left in the frontier.
C15_Witness ==
    /\ pc = "returned"
    /\ site.topo = "fan" /\ site.prio = {} /\ site.fan = 10
    /\ ~matcha_found_on_menu
    /\ Fetches = 7
    /\ Cardinality(pages_to_visit) = 4

\* The site has a front page with one link, a relative one that is priority
\* by its text or by its path, to a page that carries the menu.
OneMenuLink ==
    /\ site.topo = "fan" /\ site.fan = 0
    /\ \/ site.prio = {"text"} /\ site.matchAt = 3
       \/ site.prio = {"path"} /\ site.matchAt = 2

\* C16: when the seed answers 200 without a match and its only link is a
\* relative same-domain priority link to a page with matching text, the
\* crawl fetches the seed, queues the resolved link, fetches it and returns
\* True after exactly 2 requests.
C16_OneLinkToMenu ==
    OneMenuLink =>
        /\ (pc = "crawling" /\ pages_crawled_count = 1)
             => pages_to_visit = {Url(Seed.scheme, Seed.netloc, site.matchAt, FALSE)}
        /\ pc = "returned"
             => /\ matcha_found_on_menu = TRUE
                /\ Fetches = 2
                /\ BagToSet(get_log)
                     = {Seed, Url(Seed.scheme, Seed.netloc, site.matchAt, FALSE)}

\* The crawl of such a site has returned.
C16_Witness ==
    /\ OneMenuLink
    /\ site.prio = {"text"}
    /\ pc = "returned"
    /\ matcha_found_on_menu
    /\ pages_crawled_count = 2

\* C17: every crawl terminates: a crawl that is under way reaches the
\* point where check_menu_for_matcha returns, with True (matched) or with
\* False (frontier empty or budget used up), also on sites whose pages link
\* in cycles and on sites where every page links to a new page.
C17_CrawlTerminates ==
    (pc \in {"crawling", "popped"}) ~> (pc = "returned")

\* A crawl of a site on which every page links to itself and to a new page
\* has returned False after using up its budget.
C17_Witness ==
    /\ pc = "returned"
    /\ site.topo = "chain"
    /\ ~matcha_found_on_menu
    /\ pages_crawled_count = MAX_PAGES_TO_CRAWL
    /\ \A u \in visited_pages : Response(site, u).status = "200"

\* The page fetched from cur has an anchor that resolves to u and is
\* classified priority.
PriorityLinkTo(cur, u) ==
    LET links == Response(site, cur).links
    IN \E i \in 1..Len(links) :
         /\ links[i].form # "bad" /\ ~Skipped(links[i])
         /\ GetUrl(Joined(cur, links[i])) = u
         /\ IsPriority(Joined(cur, links[i]), links[i])

\* C18: a general link is added only while the frontier holds fewer than
\* 14 URLs: a page that is handled with 14 or more URLs in the frontier
\* adds nothing but targets of its priority links, and the URLs in the
\* frontier that no priority link led to (the seed aside) are never more
\* than 14, so a frontier of more than 14 has grown through priority links.
C18_GeneralLinkCap ==
    /\ [][ Cardinality({u \in pages_to_visit' \ website' :
                           \A v \in visited_pages' : ~PriorityLinkTo(v, u)})
             <= 14 ]_vars
    /\ [][ (pc = "popped" /\ Cardinality(pages_to_visit) >= 14)
           => \A u \in pages_to_visit' \ pages_to_visit :
                 PriorityLinkTo(Get(current_url, EmptyString), u) ]_vars

\* The front page filled the frontier with 14 general and 2 priority links
\* and left a general link out; a second page was handled with 15 URLs
\* in the frontier: its priority link was added, its general link was not.
C18_Witness ==
    /\ pc = "crawling"
    /\ pages_crawled_count = 2
    /\ Cardinality(pages_to_visit) = 16
    /\ Url("http", "a.test", 5, FALSE) \in pages_to_visit
    /\ Url("http", "a.test", 9, FALSE) \notin pages_to_visit \cup visited_pages
    /\ Url("http", "a.test", 25, FALSE) \notin pages_to_visit \cup visited_pages

\* The step fetches a page that answers 200, has no match and is handled
\* without a parsing error.
HandlesPlainPage ==
    /\ pc = "popped"
    /\ get_log' # get_log
    /\ LET r == Response(site, Get(current_url, EmptyString))
       IN /\ r.status = "200" /\ r.parsed /\ ~PageMatches(r)
          /\ \A i \in 1..Len(r.links) : r.links[i].form # "bad"

\* Every priority link of the page just fetched that leads to the seed's
\* domain is in the frontier, or leads to a visited page.
PriorityLinksQueued ==
    LET cur == Get(current_url, EmptyString)
        links == Response(site, cur).links
    IN \A i \in 1..Len(links) :
         (/\ ~Skipped(links[i])
          /\ Joined(cur, links[i]).netloc = original_domain
          /\ IsPriority(Joined(cur, links[i]), links[i]))
         => GetUrl(Joined(cur, links[i])) \in pages_to_visit' \cup visited_pages'

\* C19 as stated: after every page that answers 200 without a match, every
\* priority link on it (same domain, not visited) is in the frontier,
\* whatever the size of the frontier and whatever the number of pages
\* fetched so far.
C19_PriorityAlwaysQueued ==
    [][ HandlesPlainPage => PriorityLinksQueued ]_vars

\* C19, amended: after every page that answers 200 without a match, is
\* handled without a parsing error and is not the 7th page of the crawl,
\* every priority link on it (same domain, not visited) is in the frontier,
\* whatever the size of the frontier.
C19_PriorityQueuedWithinBudget ==
    [][ (HandlesPlainPage /\ pages_crawled_count' < MAX_PAGES_TO_CRAWL)
        => PriorityLinksQueued ]_vars

\* The front page was handled: its two priority links, which come after
\* 14 general links had filled the frontier, are queued, and the general
\* link behind them is not.
C19_Witness ==
    /\ pc = "crawling"
    /\ site.topo = "fan" /\ site.prio = {"path", "text"}
    /\ pages_crawled_count = 1
    /\ Cardinality(pages_to_visit) = 16
    /\ Url("http", "a.test", 2, FALSE) \in pages_to_visit
    /\ Url("http", "a.test", 3, FALSE) \in pages_to_visit
    /\ Url("http", "a.test", 11 + site.fan, FALSE) \notin pages_to_visit

\* The href of anchor a resolved against the URL cur of its page, as
\* urljoin(cur, href) does it for every form of href: a path-relative href
\* takes scheme and netloc of cur, a scheme-relative one its scheme.
Resolved(cur, a) ==
    CASE a.form = "empty"  -> cur
      [] a.form = "rel"    -> Url(cur.scheme, cur.netloc, a.path, a.emptyq)
      [] a.form = "netrel" -> Url(cur.scheme, a.netloc, a.path, a.emptyq)
      [] OTHER             -> Url(a.scheme, a.netloc, a.path, a.emptyq)

\* C20: a link found on a fetched page is rejected exactly when its href,
\* resolved against the URL of the page, has another host than the seed or
\* another scheme than http and https; path-relative, absolute and
\* scheme-relative links to the seed's host are priority or general.
C20_RejectExactly ==
    pc \in {"crawling", "popped"} =>
        \A u \in visited_pages :
            LET r == Response(site, u)
            IN (r.status = "200" /\ r.parsed) =>
                 \A i \in 1..Len(r.links) :
                     r.links[i].form # "bad" =>
                        ((Classify(u, r.links[i], original_domain) = "reject")
                         <=> (\/ Host(Resolved(u, r.links[i]).netloc)
                                    # Host(Seed.netloc)
                              \/ Resolved(u, r.links[i]).scheme
                                    \notin {"http", "https"}))

\* One of the supplementary signals fires on the details d: a review, the
\* name or the editorial summary mentions matcha, or the type is relevant.
SupplementarySignal(d) ==
    ReviewMention(d) \/ NameMention(d) \/ SummaryMention(d) \/ RelevantType(d)

\* C21: the placeholder "No specific matcha indicators found." is in the
\* evidence of a place exactly when its has_matcha is False and none of
\* the supplementary signals fired, and then it is the only entry.
C21_PlaceholderIff ==
    \A i \in 1..Len(coffee_shops) :
        LET shop == coffee_shops[i]
            e == shop.matcha_evidence
            placeholder == "No specific matcha indicators found."
        IN /\ HasEntry(e, placeholder)
                <=> (~shop.has_matcha /\ ~SupplementarySignal(shop.details))
           /\ HasEntry(e, placeholder) => e = <<placeholder>>

\* A place whose website was crawled without a find and whose type is the
\* only signal: one entry of evidence, not the placeholder.
C21_Witness ==
    /\ pc = "idle" /\ coffee_shops # <<>>
    /\ Truthy(website) /\ UrlParses(Get(website, EmptyString))
    /\ LET shop == coffee_shops[Len(coffee_shops)]
       IN /\ shop.has_matcha = FALSE
          /\ shop.details.name = {"Joe's Coffee"}
          /\ shop.matcha_evidence
               = <<"Relevant business type (e.g., cafe, tea room)">>

\* C22: at the head of every iteration of the crawl loop, and when the
\* crawl returns, the page counter equals the number of visited URLs; a
\* URL popped from the frontier is never a visited one, so the "already
\* visited" branch is not taken and every iteration adds one to the
\* counter.
C22_CounterIsVisited ==
    /\ [](pc \in {"crawling", "returned"}
            => pages_crawled_count = Cardinality(visited_pages))
    /\ [](pc = "popped" => current_url \cap visited_pages = {})
    /\ [][ pc = "popped"
           => /\ pages_crawled_count' = pages_crawled_count + 1
              /\ visited_pages' = visited_pages \cup current_url
              /\ Cardinality(visited_pages')
                   = Cardinality(visited_pages) + 1 ]_vars

\* On a site whose pages link to themselves and to each other the seed was
\* fetched under the string the place gave and under the string geturl()
\* gives for a link to it, and a third URL has been popped.
C22_Witness ==
    /\ pc = "popped"
    /\ site.topo = "mesh"
    /\ Seed.emptyq
    /\ {Seed, GetUrl(Seed)} \subseteq visited_pages
    /\ pages_crawled_count >= 3
    /\ pages_to_visit # {}

====
